---- MODULE Spec2Model ----
(***************************************************************************)
(* Control and state machinery of the UAVLogViewer chatbot backend:        *)
(*   - is_safe_query                     (agent/utils.py)                  *)
(*   - QueryAgent: write / execute / replan / analyze graph                *)
(*                                       (agent/QueryAgent.py)             *)
(*   - PlanExecuteAgent: plan / execute / replan / update-history graph,   *)
(*     analyse_data and its cache        (agent/PlanExecuteAgent.py)       *)
(*   - the session registry and the two endpoints   (main.py)             *)
(* Each subsystem has its own specification over the shared variables; the *)
(* variables of the other subsystems stay at their initial values.         *)
(***************************************************************************)
EXTENDS Integers, Sequences, FiniteSets, TLC

VARIABLES
    \* ---- is_safe_query, applied to one parsed query
    f_query,              \* the parsed query: a sequence of statements
    f_verdict,            \* <<>>, or <<b>> once the function has returned b
    \* ---- one QueryAgent.call
    q_node,               \* next node of the query graph, "idle", "end" or "done"
    sql_query,            \* QueryAgentState.sql_query   (NoneVal when absent)
    sql_result,           \* QueryAgentState.sql_result
    sql_error,            \* QueryAgentState.sql_error
    attempts,             \* QueryAgentState.attempts
    final_answer,         \* QueryAgentState.final_answer
    q_steps,              \* supersteps the query graph has run in this call
    q_final_step,         \* call's local final_step: name of the last node streamed
    q_ret,                \* text returned by QueryAgent.call (NoneVal while running)
    gen_calls,            \* query generations requested from the model in this call
    engine_log,           \* queries handed to sqldf in this call, with the outcome
    unsafe_seen,          \* execute_query met a query is_safe_query rejected
    llm_fault,            \* a call to the language model raised in this call
    question,             \* the question given to QueryAgent.call
    \* ---- PlanExecuteAgent: graph state kept by the checkpointer per session
    input,                \* PlanExecuteState.input
    plan,                 \* PlanExecuteState.plan
    past_steps,           \* PlanExecuteState.past_steps (reducer operator.add)
    response,             \* PlanExecuteState.response
    conversation_history, \* PlanExecuteState.conversation_history (operator.add)
    \* ---- PlanExecuteAgent.call
    turn,                 \* calls started on this session
    node,                 \* next node of the plan graph, "idle" or "end"
    steps,                \* supersteps the plan graph has run in this call
    final_step,           \* call's local final_step: name of the last node streamed
    outcome,              \* "none", "returned" or "raised"
    retval,               \* text returned by call
    faults,               \* language-model faults so far (bounded by MaxFaults)
    pairs_log,            \* every (input, response) pair update_history appended
    turn_exec,            \* past_steps entries appended in the current call
    replan_out,           \* <<steps>> when the last node run was replan and it got a Plan
    \* ---- PlanExecuteAgent.analyse_data
    analysis_cache,       \* self.analysis_cache, in insertion order
    calls,                \* analyse_data calls made directly (bounded by MaxCalls)
    known_used,           \* numeric tables 1..known_used have been asked for
    unknown_used,         \* unknown names asked for so far
    last_call,            \* the last analyse_data call: table, result, cache hit
    \* ---- main.py: the session registry and the requests in flight
    agents,               \* the TTLCache: entries [id, expires], least recently used first
    agent_lock,           \* 0 when free, else the request thread holding it
    now,                  \* the cache's timer, in seconds
    next_id,              \* session ids issued so far (uuid4 never repeats)
    r_pc,                 \* per request thread: position in its endpoint
    r_sid,                \* per thread: session id of its request (0: none)
    r_agent,              \* per thread: the agent agents.get returned (0: None)
    r_result,             \* the request that finished last: thread, session id, outcome
    r_served              \* per session id: time of the last chat lookup that found it (-1: none)

fvars == <<f_query, f_verdict>>
qvars == <<q_node, sql_query, sql_result, sql_error, attempts, final_answer,
           q_steps, q_final_step, q_ret, gen_calls, engine_log, unsafe_seen,
           llm_fault, question>>
svars == <<input, plan, past_steps, response, conversation_history>>
pvars == <<svars, turn, node, steps, final_step, outcome, retval, faults,
           pairs_log, turn_exec, replan_out>>
cvars == <<analysis_cache, calls, known_used, unknown_used, last_call>>
rvars == <<agents, agent_lock, now, next_id, r_pc, r_sid, r_agent, r_result,
           r_served>>
vars == <<fvars, qvars, pvars, cvars, rvars>>

NoneVal == "None"

-----------------------------------------------------------------------------
(* Parsed SQL.  sqlparse.parse returns statements; a statement's .tokens   *)
(* are its top-level tokens.  A leaf token has a ttype and a value; a      *)
(* group (parenthesis, WHERE clause, identifier list ...) has ttype None   *)
(* and carries its own sub-tokens.                                         *)

Leaf(t, v) == [ttype |-> t, value |-> v, tokens |-> <<>>]
Group(sub) == [ttype |-> NoneVal, value |-> "(...)", tokens |-> sub]

\* str.upper() on the words the model uses
Upper(v) ==
    CASE v \in {"DROP", "drop", "Drop"} -> "DROP"
      [] v \in {"DELETE", "delete"} -> "DELETE"
      [] v \in {"INSERT", "Insert"} -> "INSERT"
      [] v \in {"UPDATE", "update"} -> "UPDATE"
      [] v \in {"PRAGMA", "pragma"} -> "PRAGMA"
      [] v \in {"SELECT", "select"} -> "SELECT"
      [] v \in {"FROM", "from"} -> "FROM"
      [] OTHER -> v

Disallowed == {"DROP", "DELETE", "INSERT", "UPDATE", "PRAGMA"}

\* The token types the lexer gives a word.  DML and DDL words carry the
\* sub-types Keyword.DML and Keyword.DDL, which are token types of their own;
\* PRAGMA is outside the standard keyword tables, so both outcomes are kept.
LexTypes(v) ==
    CASE Upper(v) \in {"DELETE", "INSERT", "UPDATE", "SELECT"} -> {"Keyword.DML"}
      [] Upper(v) = "DROP" -> {"Keyword.DDL"}
      [] Upper(v) = "FROM" -> {"Keyword"}
      [] Upper(v) = "PRAGMA" -> {"Keyword", "Name"}
      [] OTHER -> {"Name"}

KeywordTypes == {"Keyword", "Keyword.DML", "Keyword.DDL"}

\* utils.py:9   token.ttype is sqlparse.tokens.Keyword and
\*              token.value.upper() in {...}
TokenHit(token) ==
    /\ token.ttype = "Keyword"
    /\ Upper(token.value) \in Disallowed

\* utils.py:6-12
is_safe_query(query) ==
    ~ \E s \in 1..Len(query) :
        \E i \in 1..Len(query[s]) : TokenHit(query[s][i])

-----------------------------------------------------------------------------
(* is_safe_query on bounded inputs *)

MaxTokens == 2
MaxStatements == 2

Words == {"DROP", "drop", "delete", "Insert", "UPDATE", "pragma", "SELECT",
          "FROM", "Alt"}

LeafTokens == UNION {{Leaf(t, v) : t \in LexTypes(v)} : v \in Words}
GroupTokens == {Group(<<l>>) : l \in LeafTokens}
Tokens == LeafTokens \cup GroupTokens

SeqsUpTo(S, n) == UNION {[1..k -> S] : k \in 0..n}

Statements == SeqsUpTo(Tokens, MaxTokens)
ParsedQueries == UNION {[1..k -> Statements] : k \in 1..MaxStatements}

FilterIdle ==
    /\ f_query = <<>>
    /\ f_verdict = <<>>

FilterInput ==
    /\ f_query \in ParsedQueries
    /\ f_verdict = <<>>

CheckQuery ==
    /\ UNCHANGED <<qvars, pvars, cvars, rvars>>
    /\ f_verdict = <<>>
    /\ f_verdict' = <<is_safe_query(f_query)>>
    /\ UNCHANGED f_query

-----------------------------------------------------------------------------
(* QueryAgent *)

QRecursionLimit == 5

FailedAfter5 == "Failed after 5 attempts."
DegradedText == "I couldn't access the information"
GenericFailure == "Something went wrong. Please try again."

\* The queries the language model may produce, already parsed
QSelect == << <<Leaf("Keyword.DML", "SELECT"), Leaf("Name", "Alt"),
               Leaf("Keyword", "FROM"), Leaf("Name", "GPS_0")>> >>
QDrop == << <<Leaf("Keyword.DDL", "DROP"), Leaf("Name", "GPS_0")>> >>
QPragma == << <<Leaf("Keyword", "pragma"), Leaf("Name", "Alt")>> >>
Queries == {QSelect, QDrop, QPragma}

Questions == {"max altitude", "flight duration"}

\* the query loop touches nothing else
QOthers == UNCHANGED <<fvars, pvars, cvars, rvars>>

\* what sqldf may do with a query: rows, no rows, or an exception
EngineOutcomes == {"rows", "[]", "raise"}

QIdle ==
    /\ q_node = "idle"
    /\ sql_query = NoneVal
    /\ sql_result = NoneVal
    /\ sql_error = NoneVal
    /\ attempts = <<>>
    /\ final_answer = NoneVal
    /\ q_steps = 0
    /\ q_final_step = NoneVal
    /\ q_ret = NoneVal
    /\ gen_calls = 0
    /\ engine_log = <<>>
    /\ unsafe_seen = FALSE
    /\ llm_fault = FALSE
    /\ question = NoneVal

\* QueryAgent.py:124-130  call: a fresh graph state holding question and
\* attempts = []
QCall ==
    /\ q_node \in {"idle", "done"}
    /\ q_node' = "write_query"
    /\ sql_query' = NoneVal
    /\ sql_result' = NoneVal
    /\ sql_error' = NoneVal
    /\ attempts' = <<>>
    /\ final_answer' = NoneVal
    /\ q_steps' = 0
    /\ q_final_step' = NoneVal
    /\ q_ret' = NoneVal
    /\ gen_calls' = 0
    /\ engine_log' = <<>>
    /\ unsafe_seen' = FALSE
    /\ llm_fault' = FALSE
    /\ question' \in Questions
    /\ QOthers

QNodes == {"write_query", "execute_query", "replan_query", "analyze_result"}

\* a graph without a limit on its supersteps
QMayStep_Unlimited(n) == q_node = n

\* a node may run while the graph has supersteps left
QMayStep(n) == q_node = n /\ q_steps < QRecursionLimit

\* a call without the handler of lines 137-138: the exception leaves call
QRaise_Propagate ==
    /\ q_node' = "done"
    /\ q_ret' = "raised"
    /\ UNCHANGED <<sql_query, sql_result, sql_error, attempts, final_answer,
                   q_steps, q_final_step>>

\* QueryAgent.py:137-138  any exception raised by a node leaves stream and is
\* turned into the generic text
QRaise ==
    /\ q_node' = "done"
    /\ q_ret' = GenericFailure
    /\ UNCHANGED <<sql_query, sql_result, sql_error, attempts, final_answer,
                   q_steps, q_final_step>>

\* QueryAgent.py:130,134-135  the graph has used its supersteps.  The library
\* raises GraphRecursionError when a node is still to run; when the last
\* permitted superstep was also the last node of the graph, the library either
\* ends the stream or raises, depending on whether it tests the limit before
\* it looks for remaining tasks: both outcomes are kept.
QRecursionError ==
    /\ UNCHANGED question /\ QOthers
    /\ q_node \in QNodes \cup {"end"}
    /\ q_steps >= QRecursionLimit
    /\ q_node' = "done"
    /\ q_ret' = DegradedText
    /\ UNCHANGED <<sql_query, sql_result, sql_error, attempts, final_answer,
                   q_steps, q_final_step, gen_calls, engine_log, unsafe_seen,
                   llm_fault>>

\* the new query replaces the history instead of extending it
AddAttempt_Replace(history, query) == <<query>>

\* QueryAgent.py:83,114  state["attempts"] + [query]
AddAttempt(history, query) == Append(history, query)

\* QueryAgent.py:77-83, edge 61
WriteQuery ==
    /\ UNCHANGED question /\ QOthers
    /\ QMayStep("write_query")
    /\ gen_calls' = gen_calls + 1
    /\ UNCHANGED <<engine_log, unsafe_seen>>
    /\ \E fault \in BOOLEAN, query \in Queries :
        IF fault
        THEN QRaise /\ llm_fault' = TRUE
        ELSE /\ sql_query' = query
             /\ attempts' = AddAttempt(attempts, query)
             /\ q_steps' = q_steps + 1
             /\ q_final_step' = "write_query"
             /\ q_node' = "execute_query"
             /\ UNCHANGED <<sql_result, sql_error, final_answer, q_ret, llm_fault>>

\* QueryAgent.py:86  the guard in front of sqldf
MayExecute_Always(query) == TRUE

MayExecute(query) == is_safe_query(query)

\* QueryAgent.py:65  the conditional edge after execute_query
ExecuteRoute(result) ==
    IF result # NoneVal /\ result # "" THEN "analyze_result" ELSE "replan_query"

\* QueryAgent.py:85-95, edges 63-70
ExecuteQuery ==
    /\ UNCHANGED question /\ QOthers
    /\ QMayStep("execute_query")
    /\ UNCHANGED <<gen_calls, llm_fault>>
    /\ IF ~MayExecute(sql_query)
       THEN \* line 87 reads state['query'], a key the state does not have:
            \* KeyError
            /\ QRaise
            /\ unsafe_seen' = TRUE
            /\ UNCHANGED engine_log
       ELSE \E out \in EngineOutcomes :
            /\ engine_log' = Append(engine_log, [query |-> sql_query, out |-> out])
            /\ sql_result' = IF out = "raise" THEN NoneVal ELSE out
            /\ sql_error' = IF out = "raise" THEN "engine error" ELSE NoneVal
            /\ q_steps' = q_steps + 1
            /\ q_final_step' = "execute_query"
            /\ q_node' = ExecuteRoute(sql_result')
            /\ UNCHANGED <<sql_query, attempts, final_answer, q_ret, unsafe_seen>>

\* QueryAgent.py:97-114, edge 72
ReplanQuery ==
    /\ UNCHANGED question /\ QOthers
    /\ QMayStep("replan_query")
    /\ UNCHANGED <<engine_log, unsafe_seen>>
    /\ IF Len(attempts) >= 5
       THEN /\ final_answer' = FailedAfter5
            /\ q_steps' = q_steps + 1
            /\ q_final_step' = "replan_query"
            /\ q_node' = "execute_query"
            /\ UNCHANGED <<sql_query, sql_result, sql_error, attempts, q_ret,
                           gen_calls, llm_fault>>
       ELSE /\ gen_calls' = gen_calls + 1
            /\ \E fault \in BOOLEAN, query \in Queries :
                IF fault
                THEN QRaise /\ llm_fault' = TRUE
                ELSE /\ sql_query' = query
                     /\ attempts' = AddAttempt(attempts, query)
                     /\ q_steps' = q_steps + 1
                     /\ q_final_step' = "replan_query"
                     /\ q_node' = "execute_query"
                     /\ UNCHANGED <<sql_result, sql_error, final_answer, q_ret,
                                    llm_fault>>

\* QueryAgent.py:116-122; analyze_result has no outgoing edge
AnalyzeResult ==
    /\ UNCHANGED question /\ QOthers
    /\ QMayStep("analyze_result")
    /\ UNCHANGED <<gen_calls, engine_log, unsafe_seen>>
    /\ \E fault \in BOOLEAN :
        IF fault
        THEN QRaise /\ llm_fault' = TRUE
        ELSE /\ final_answer' = "summary"
             /\ q_steps' = q_steps + 1
             /\ q_final_step' = "analyze_result"
             /\ q_node' = "end"
             /\ UNCHANGED <<sql_query, sql_result, sql_error, attempts, q_ret,
                            llm_fault>>

\* QueryAgent.py:132  the stream is exhausted
QReturn ==
    /\ UNCHANGED question /\ QOthers
    /\ q_node = "end"
    /\ q_node' = "done"
    /\ q_ret' = IF q_final_step = "analyze_result" THEN final_answer
                 ELSE GenericFailure
    /\ UNCHANGED <<sql_query, sql_result, sql_error, attempts, final_answer,
                   q_steps, q_final_step, gen_calls, engine_log, unsafe_seen,
                   llm_fault>>

NextQuery ==
    \/ QCall
    \/ WriteQuery
    \/ ExecuteQuery
    \/ ReplanQuery
    \/ AnalyzeResult
    \/ QRecursionError
    \/ QReturn

NextFilter == CheckQuery

-----------------------------------------------------------------------------
(* PlanExecuteAgent.analyse_data and its cache *)

CacheLimit == 20

\* Tables of the session (self.data).  Table 0 is loaded and has no numeric
\* column; tables 1..NumNumeric are loaded and numeric; the names above
\* NumNumeric are not loaded.
NumNumeric == 21
NumUnknown == 1
MaxCalls == 23

NumericTables == 1..NumNumeric
LoadedTables == {0} \cup NumericTables
UnknownTables == (NumNumeric + 1)..(NumNumeric + NumUnknown)

Text(kind, table, listed) == [kind |-> kind, table |-> table, listed |-> listed]

\* PlanExecuteAgent.py:191
NotFoundText(t) == Text("not found", t, LoadedTables)
\* PlanExecuteAgent.py:198
NoNumericText(t) == Text("no numeric data", t, {})
\* PlanExecuteAgent.py:200-241
SummaryText(t) == Text("summary", t, {})

\* one key for every name
CacheKey_Shared(t) == 0

\* PlanExecuteAgent.py:186  cache_key = f"analysis_{table_name}"
CacheKey(t) == t

CacheKeys(cache) == {cache[i].key : i \in 1..Len(cache)}
CacheGet(cache, k) == cache[CHOOSE i \in 1..Len(cache) : cache[i].key = k].text

\* PlanExecuteAgent.py:244-246  the dict keeps insertion order; next(iter(..))
\* is the key inserted first
EvictOldest(cache) ==
    IF Len(cache) > CacheLimit THEN Tail(cache) ELSE cache

\* the no-numeric-data text is stored like a summary
AnalyseCache_StoreAll(cache, t) ==
    IF CacheKey(t) \in CacheKeys(cache) THEN cache
    ELSE IF t \notin LoadedTables
    THEN Append(cache, [key |-> CacheKey(t), text |-> NotFoundText(t)])
    ELSE IF t \notin NumericTables
    THEN EvictOldest(Append(cache, [key |-> CacheKey(t), text |-> NoNumericText(t)]))
    ELSE EvictOldest(Append(cache, [key |-> CacheKey(t), text |-> SummaryText(t)]))

\* PlanExecuteAgent.py:181-248  the cache after analyse_data(t)
AnalyseCache(cache, t) ==
    IF CacheKey(t) \in CacheKeys(cache) THEN cache
    ELSE IF t \notin LoadedTables
    THEN Append(cache, [key |-> CacheKey(t), text |-> NotFoundText(t)])
    ELSE IF t \notin NumericTables THEN cache
    ELSE EvictOldest(Append(cache, [key |-> CacheKey(t), text |-> SummaryText(t)]))

\* PlanExecuteAgent.py:181-248  the text analyse_data(t) returns
AnalyseResult(cache, t) ==
    IF CacheKey(t) \in CacheKeys(cache) THEN CacheGet(cache, CacheKey(t))
    ELSE IF t \notin LoadedTables THEN NotFoundText(t)
    ELSE IF t \notin NumericTables THEN NoNumericText(t)
    ELSE SummaryText(t)

\* what one analyse_data(t) call did: the name, the text returned, and whether
\* line 187 found the key
CallRecord(cache, t) ==
    [table |-> t, result |-> AnalyseResult(cache, t),
     hit |-> CacheKey(t) \in CacheKeys(cache)]

NoCall == [table |-> -1, result |-> Text("none", -1, {}), hit |-> FALSE]

CacheIdle ==
    /\ analysis_cache = <<>>
    /\ calls = 0
    /\ known_used = 0
    /\ unknown_used = 0
    /\ last_call = NoCall

\* The names a caller may pass: any name asked for before, table 0, the next
\* numeric table and the next unknown name (names of one class are
\* interchangeable, so new ones are taken in increasing order).
Askable ==
    {0} \cup (1..known_used) \cup (NumNumeric + 1)..(NumNumeric + unknown_used)
        \cup (IF known_used < NumNumeric THEN {known_used + 1} ELSE {})
        \cup (IF unknown_used < NumUnknown
              THEN {NumNumeric + unknown_used + 1} ELSE {})

\* one direct call of analyse_data
Analyse ==
    /\ UNCHANGED <<fvars, qvars, pvars, rvars>>
    /\ calls < MaxCalls
    /\ \E t \in Askable :
        /\ analysis_cache' = AnalyseCache(analysis_cache, t)
        /\ last_call' = CallRecord(analysis_cache, t)
        /\ known_used' = IF t = known_used + 1 /\ t \in NumericTables
                         THEN t ELSE known_used
        /\ unknown_used' = IF t = NumNumeric + unknown_used + 1
                           THEN unknown_used + 1 ELSE unknown_used
        /\ calls' = calls + 1

-----------------------------------------------------------------------------
(* main.py: the session registry, initialize_endpoint, chat_stream_endpoint *)

\* main.py:15  TTLCache(maxsize=20, ttl=1800)
maxsize == 20
ttl == 1800

NumThreads == 2
MaxSessions == 1
MaxTicks == 2

Threads == 1..NumThreads
\* the timer advances in steps of half the time to live
TickSeconds == ttl \div 2

\* session ids a chat request may carry: 0 was never issued
SessionIds == 0..MaxSessions

Finished(t, sid, result) == [thread |-> t, sid |-> sid, result |-> result]

RIdle ==
    /\ agents = <<>>
    /\ agent_lock = 0
    /\ now = 0
    /\ next_id = 0
    /\ r_pc = [t \in Threads |-> "idle"]
    /\ r_sid = [t \in Threads |-> 0]
    /\ r_agent = [t \in Threads |-> 0]
    /\ r_result = Finished(0, 0, "none")
    /\ r_served = [id \in 1..MaxSessions |-> -1]

ROthers == UNCHANGED <<fvars, qvars, pvars, cvars>>

\* TTLCache.expire: entries whose time is up are removed
Expire(cache, time) == SelectSeq(cache, LAMBDA e : time < e.expires)

\* TTLCache.__setitem__ with a key not in the cache: expire, make room by
\* removing the least recently used entry, insert with expires = time + ttl
SetItem(cache, id, time) ==
    LET live == Expire(cache, time)
        room == IF Len(live) + 1 > maxsize THEN Tail(live) ELSE live
    IN  Append(room, [id |-> id, expires |-> time + ttl])

\* Cache.get -> TTLCache.__contains__: the key is present and not expired
Alive(cache, id, time) ==
    \E i \in 1..Len(cache) : cache[i].id = id /\ time < cache[i].expires

\* Cache.get -> TTLCache.__getitem__: a live key becomes the most recently
\* used one; its expiry time stays
Touch(cache, id, time) ==
    IF Alive(cache, id, time)
    THEN LET i == CHOOSE i \in 1..Len(cache) : cache[i].id = id
         IN  Append(SelectSeq(cache, LAMBDA e : e.id # id), cache[i])
    ELSE cache

\* threading.Lock: acquire only succeeds on a free lock
LockFree_Always == TRUE

LockFree == agent_lock = 0

\* main.py:36-43  a request without messages returns the error; otherwise the
\* tables are built, a fresh session id is drawn and the agent is constructed
InitializeStart(t) ==
    /\ ROthers /\ UNCHANGED r_served
    /\ r_pc[t] = "idle"
    /\ \E empty \in BOOLEAN :
        IF empty
        THEN /\ r_result' = Finished(t, 0, "no messages")
             /\ r_result' # r_result
             /\ UNCHANGED <<agents, agent_lock, now, next_id, r_pc, r_sid, r_agent>>
        ELSE /\ next_id < MaxSessions
             /\ next_id' = next_id + 1
             /\ r_sid' = [r_sid EXCEPT ![t] = next_id + 1]
             /\ r_pc' = [r_pc EXCEPT ![t] = "init_made"]
             /\ UNCHANGED <<agents, agent_lock, now, r_agent, r_result>>

\* main.py:44  with agent_lock:
InitializeLock(t) ==
    /\ ROthers /\ UNCHANGED r_served
    /\ r_pc[t] = "init_made"
    /\ LockFree
    /\ agent_lock' = t
    /\ r_pc' = [r_pc EXCEPT ![t] = "init_locked"]
    /\ UNCHANGED <<agents, now, next_id, r_sid, r_agent, r_result>>

\* main.py:45-46  agents[session_id] = agent; the lock is released; return
InitializeStore(t) ==
    /\ ROthers /\ UNCHANGED r_served
    /\ r_pc[t] = "init_locked"
    /\ agents' = SetItem(agents, r_sid[t], now)
    /\ agent_lock' = 0
    /\ r_pc' = [r_pc EXCEPT ![t] = "idle"]
    /\ r_result' = Finished(t, r_sid[t], "initialized")
    /\ r_sid' = [r_sid EXCEPT ![t] = 0]
    /\ UNCHANGED <<now, next_id, r_agent>>

\* main.py:58-59  a chat request arrives and takes the lock
ChatLock(t) ==
    /\ ROthers /\ UNCHANGED r_served
    /\ r_pc[t] = "idle"
    /\ LockFree
    /\ \E sid \in SessionIds :
        /\ r_sid' = [r_sid EXCEPT ![t] = sid]
    /\ agent_lock' = t
    /\ r_pc' = [r_pc EXCEPT ![t] = "chat_locked"]
    /\ UNCHANGED <<agents, now, next_id, r_agent, r_result>>

\* main.py:60  agent = agents.get(sessionId); the lock is released
ChatGet(t) ==
    /\ ROthers
    /\ r_pc[t] = "chat_locked"
    /\ r_agent' = [r_agent EXCEPT
                     ![t] = IF Alive(agents, r_sid[t], now) THEN r_sid[t] ELSE 0]
    /\ agents' = Touch(agents, r_sid[t], now)
    /\ r_served' = IF Alive(agents, r_sid[t], now)
                    THEN [r_served EXCEPT ![r_sid[t]] = now] ELSE r_served
    /\ agent_lock' = 0
    /\ r_pc' = [r_pc EXCEPT ![t] = "chat_got"]
    /\ UNCHANGED <<now, next_id, r_sid, r_result>>

\* main.py:61-64  no agent: the error stream is returned
ChatInvalid(t) ==
    /\ ROthers /\ UNCHANGED r_served
    /\ r_pc[t] = "chat_got"
    /\ r_agent[t] = 0
    /\ r_pc' = [r_pc EXCEPT ![t] = "idle"]
    /\ r_result' = Finished(t, r_sid[t], "invalid session")
    /\ r_sid' = [r_sid EXCEPT ![t] = 0]
    /\ UNCHANGED <<agents, agent_lock, now, next_id, r_agent>>

\* main.py:66,70  the streaming response over event_stream is returned
ChatRespond(t) ==
    /\ ROthers /\ UNCHANGED r_served
    /\ r_pc[t] = "chat_got"
    /\ r_agent[t] # 0
    /\ r_pc' = [r_pc EXCEPT ![t] = "streaming"]
    /\ UNCHANGED <<agents, agent_lock, now, next_id, r_sid, r_agent, r_result>>

\* main.py:67  event_stream is iterated: agent.call_stream is looked up on a
\* PlanExecuteAgent, which defines no such attribute (PlanExecuteAgent.py
\* 132-341): AttributeError, before any turn is run
EventStream(t) ==
    /\ ROthers /\ UNCHANGED r_served
    /\ r_pc[t] = "streaming"
    /\ r_pc' = [r_pc EXCEPT ![t] = "idle"]
    /\ r_result' = Finished(t, r_sid[t], "raised")
    /\ r_agent' = [r_agent EXCEPT ![t] = 0]
    /\ r_sid' = [r_sid EXCEPT ![t] = 0]
    /\ UNCHANGED <<agents, agent_lock, now, next_id>>

\* time passes
Tick ==
    /\ ROthers /\ UNCHANGED r_served
    /\ now < MaxTicks * TickSeconds
    /\ now' = now + TickSeconds
    /\ UNCHANGED <<agents, agent_lock, next_id, r_pc, r_sid, r_agent, r_result>>

NextSession ==
    \/ \E t \in Threads : InitializeStart(t)
    \/ \E t \in Threads : InitializeLock(t)
    \/ \E t \in Threads : InitializeStore(t)
    \/ \E t \in Threads : ChatLock(t)
    \/ \E t \in Threads : ChatGet(t)
    \/ \E t \in Threads : ChatInvalid(t)
    \/ \E t \in Threads : ChatRespond(t)
    \/ \E t \in Threads : EventStream(t)
    \/ Tick

-----------------------------------------------------------------------------
(* PlanExecuteAgent: the plan graph and call *)

HistoryLimit == 10
OuterRecursionLimit == 25

MaxTurns == 2
MaxPast == 3
MaxPlanLen == 2
MaxFaults == 1
MaxTurnsH == 11
MaxPastH == 1
MaxTurnsC == 1
MaxPastC == 13

Reformulate == "Please reformulate."

\* PlanExecuteAgent.py:25-32  Query(question), Analysis(table_name); equality
\* of two steps is equality of class and field
QueryStep(a) == [kind |-> "Query", arg |-> a]
AnalysisStep(a) == [kind |-> "Analysis", arg |-> a]
NoStep == [kind |-> "None", arg |-> -1]

PlanSteps == {QueryStep(1), AnalysisStep(1), AnalysisStep(2)}
PlannerPlans == SeqsUpTo(PlanSteps, MaxPlanLen)

\* texts a DirectResponse or Response may carry (the field is any string)
Responses == {"answer", ""}

\* texts QueryAgent.call returns (QueryAgent.py:132-138)
QueryTexts == {Text("summary", -1, {}), Text(DegradedText, -1, {}),
               Text(GenericFailure, -1, {})}
EmptyText == Text("", -1, {})

PNodes == {"get_plan_or_response", "agent", "replan", "update_history"}

PIdle ==
    /\ input = 0
    /\ plan = <<>>
    /\ past_steps = <<>>
    /\ response = ""
    /\ conversation_history = <<>>
    /\ turn = 0
    /\ node = "idle"
    /\ steps = 0
    /\ final_step = [name |-> NoneVal, update |-> <<>>]
    /\ outcome = "none"
    /\ retval = NoneVal
    /\ faults = 0
    /\ pairs_log = <<>>
    /\ turn_exec = 0
    /\ replan_out = <<>>

POthers == UNCHANGED <<fvars, qvars, calls, known_used, unknown_used, rvars>>
KeepCache == UNCHANGED <<analysis_cache, last_call>>

PMayStep(n) == node = n /\ steps < OuterRecursionLimit

\* PlanExecuteAgent.py:325-335  call streams the graph on the session's thread:
\* input, plan and response are overwritten, past_steps and
\* conversation_history receive [] through operator.add and keep what the
\* checkpointer holds
Call(env) ==
    /\ POthers /\ KeepCache
    /\ node = "idle"
    /\ turn < env.maxTurns
    /\ turn' = turn + 1
    /\ input' = turn + 1
    /\ plan' = <<>>
    /\ past_steps' = past_steps \o <<>>
    /\ response' = ""
    /\ conversation_history' = conversation_history \o <<>>
    /\ node' = "get_plan_or_response"
    /\ steps' = 0
    /\ final_step' = [name |-> NoneVal, update |-> <<>>]
    /\ outcome' = "none"
    /\ retval' = NoneVal
    /\ turn_exec' = 0
    /\ replan_out' = <<>>
    /\ UNCHANGED <<faults, pairs_log>>

\* PlanExecuteAgent.py:329-336  the stream loop is outside the try of call: an
\* exception raised by a node leaves call
PRaise ==
    /\ node' = "idle"
    /\ outcome' = "raised"
    /\ faults' = faults + 1
    /\ KeepCache
    /\ UNCHANGED <<svars, turn, steps, final_step, retval, pairs_log, turn_exec,
                   replan_out>>

\* PlanExecuteAgent.py:156  the conditional edge after get_plan_or_response
PlanRoute(p) == IF p # <<>> THEN "agent" ELSE "update_history"

\* PlanExecuteAgent.py:164  the conditional edge after replan
ReplanRoute(r) == IF r # "" THEN "update_history" ELSE "agent"

\* PlanExecuteAgent.py:250-268, edges 153-158
GetPlanOrResponse(env) ==
    /\ POthers
    /\ PMayStep("get_plan_or_response")
    /\ \/ /\ faults < MaxFaults
          /\ PRaise
       \/ /\ \E r \in env.responses : response' = r
          /\ node' = PlanRoute(plan)
          /\ final_step' = [name |-> "get_plan_or_response", update |-> <<>>]
          /\ steps' = steps + 1
          /\ UNCHANGED <<input, plan, past_steps, conversation_history, turn,
                         outcome, retval, faults, pairs_log, turn_exec,
                         replan_out>>
          /\ KeepCache
       \/ /\ \E p \in env.plans :
              /\ p # <<>> => Len(past_steps) < env.maxPast
              /\ plan' = p
          /\ node' = PlanRoute(plan')
          /\ final_step' = [name |-> "get_plan_or_response", update |-> <<>>]
          /\ steps' = steps + 1
          /\ UNCHANGED <<input, past_steps, response, conversation_history, turn,
                         outcome, retval, faults, pairs_log, turn_exec,
                         replan_out>>
          /\ KeepCache

\* the last step of the plan is taken
CurrentStep_Last(p) == p[Len(p)]

\* PlanExecuteAgent.py:273  step = state["plan"][0]
CurrentStep(p) == p[1]

\* PlanExecuteAgent.py:270-285, edge 159
ExecuteStep ==
    /\ POthers
    /\ PMayStep("agent")
    /\ IF Len(plan) = 0
       THEN /\ past_steps' = Append(past_steps, [step |-> NoStep, result |-> EmptyText])
            /\ KeepCache
       ELSE LET step == CurrentStep(plan) IN
            IF step.kind = "Query"
            THEN /\ \E result \in QueryTexts :
                     past_steps' = Append(past_steps, [step |-> step, result |-> result])
                 /\ KeepCache
            ELSE /\ past_steps' = Append(past_steps,
                     [step |-> step, result |-> AnalyseResult(analysis_cache, step.arg)])
                 /\ analysis_cache' = AnalyseCache(analysis_cache, step.arg)
                 /\ last_call' = CallRecord(analysis_cache, step.arg)
    /\ node' = "replan"
    /\ final_step' = [name |-> "agent", update |-> <<>>]
    /\ steps' = steps + 1
    /\ turn_exec' = turn_exec + 1
    /\ replan_out' = <<>>
    /\ UNCHANGED <<input, plan, response, conversation_history, turn, outcome,
                   retval, faults, pairs_log>>

\* PlanExecuteAgent.py:310-313
FilterCompleted_ByField(new_steps, past) ==
    SelectSeq(new_steps,
              LAMBDA s : \A i \in 1..Len(past) : past[i].step.arg # s.arg)

FilterCompleted(new_steps, past) ==
    SelectSeq(new_steps, LAMBDA s : \A i \in 1..Len(past) : past[i].step # s)

\* PlanExecuteAgent.py:287-315, edges 162-166
Replan(env) ==
    /\ POthers
    /\ PMayStep("replan")
    /\ \/ /\ faults < MaxFaults
          /\ PRaise
       \/ /\ \E r \in env.responses :
              /\ r = "" => Len(past_steps) < env.maxPast
              /\ response' = r
          /\ node' = ReplanRoute(response')
          /\ final_step' = [name |-> "replan", update |-> <<>>]
          /\ steps' = steps + 1
          /\ replan_out' = <<>>
          /\ UNCHANGED <<input, plan, past_steps, conversation_history, turn,
                         outcome, retval, faults, pairs_log, turn_exec>>
          /\ KeepCache
       \/ /\ Len(past_steps) < env.maxPast
          /\ \E out \in env.plans :
              /\ replan_out' = <<out>>
              /\ plan' = FilterCompleted(out, past_steps)
          /\ node' = ReplanRoute(response)
          /\ final_step' = [name |-> "replan", update |-> <<>>]
          /\ steps' = steps + 1
          /\ UNCHANGED <<input, past_steps, response, conversation_history, turn,
                         outcome, retval, faults, pairs_log, turn_exec>>
          /\ KeepCache

\* PlanExecuteAgent.py:319-320
DropOldest_Never(history) == history

DropOldest(history) ==
    IF Len(history) >= HistoryLimit THEN Tail(history) ELSE history

\* PlanExecuteAgent.py:317-323, edge 161
UpdateHistory ==
    /\ POthers
    /\ PMayStep("update_history")
    /\ LET update == <<[input |-> input, response |-> response]>> IN
        /\ conversation_history' = DropOldest(conversation_history) \o update
        /\ pairs_log' = pairs_log \o update
        /\ final_step' = [name |-> "update_history", update |-> update]
    /\ node' = "end"
    /\ steps' = steps + 1
    /\ KeepCache
    /\ UNCHANGED <<input, plan, past_steps, response, turn, outcome, retval,
                   faults, turn_exec, replan_out>>

\* a call whose lookup of the last update fails: the except branch answers
Return_Reformulate ==
    /\ POthers
    /\ node = "end"
    /\ node' = "idle"
    /\ outcome' = "returned"
    /\ retval' = Reformulate
    /\ KeepCache
    /\ UNCHANGED <<svars, turn, steps, final_step, faults, pairs_log, turn_exec,
                   replan_out>>

\* PlanExecuteAgent.py:338-341
Return ==
    /\ POthers
    /\ node = "end"
    /\ node' = "idle"
    /\ outcome' = "returned"
    /\ retval' = IF final_step.name = "update_history" /\ final_step.update # <<>>
                 THEN final_step.update[Len(final_step.update)].response
                 ELSE Reformulate
    /\ KeepCache
    /\ UNCHANGED <<svars, turn, steps, final_step, faults, pairs_log, turn_exec,
                   replan_out>>

\* PlanExecuteAgent.py:329-335  stream is called without a recursion_limit: the
\* graph stops with GraphRecursionError after the default number of supersteps
PRecursionError ==
    /\ POthers
    /\ node \in PNodes
    /\ steps >= OuterRecursionLimit
    /\ node' = "idle"
    /\ outcome' = "raised"
    /\ KeepCache
    /\ UNCHANGED <<svars, turn, steps, final_step, retval, faults, pairs_log,
                   turn_exec, replan_out>>

\* What the callers and the language model may do in a specification: how many
\* calls are made, how long past_steps may grow before the model must answer,
\* and the plans and response texts the model may return.
EnvMain == [maxTurns |-> MaxTurns, maxPast |-> MaxPast,
            plans |-> PlannerPlans, responses |-> Responses]
EnvHistory == [maxTurns |-> MaxTurnsH, maxPast |-> MaxPastH,
               plans |-> {<<QueryStep(1)>>, <<AnalysisStep(1)>>},
               responses |-> {"answer"}]

\* a replanner that may continue until the graph has used its supersteps
EnvCeiling == [maxTurns |-> MaxTurnsC, maxPast |-> MaxPastC,
               plans |-> {<<AnalysisStep(1)>>, <<AnalysisStep(2)>>},
               responses |-> {"answer"}]

\* PRecursionError is a disjunct of NextCeiling only: under the other
\* relations the bound on past_steps keeps steps below OuterRecursionLimit.
Next ==
    \/ Call(EnvMain)
    \/ GetPlanOrResponse(EnvMain)
    \/ ExecuteStep
    \/ Replan(EnvMain)
    \/ UpdateHistory
    \/ Return

NextHistory ==
    \/ Call(EnvHistory)
    \/ GetPlanOrResponse(EnvHistory)
    \/ ExecuteStep
    \/ Replan(EnvHistory)
    \/ UpdateHistory
    \/ Return

NextCeiling ==
    \/ Call(EnvCeiling)
    \/ GetPlanOrResponse(EnvCeiling)
    \/ ExecuteStep
    \/ Replan(EnvCeiling)
    \/ UpdateHistory
    \/ Return
    \/ PRecursionError

NextCache == Analyse

Init == FilterIdle /\ QIdle /\ PIdle /\ CacheIdle /\ RIdle

InitFilter == FilterInput /\ QIdle /\ PIdle /\ CacheIdle /\ RIdle

Spec == Init /\ [][Next]_vars
SpecHistory == Init /\ [][NextHistory]_vars
SpecFilter == InitFilter /\ [][NextFilter]_vars
SpecQuery == Init /\ [][NextQuery]_vars
SpecCache == Init /\ [][NextCache]_vars
SpecCeiling == Init /\ [][NextCeiling]_vars
SpecSession == Init /\ [][NextSession]_vars

-----------------------------------------------------------------------------
(* Properties *)

\* C1 (SpecQuery).  A call in which no language-model call raised and every
\* generated query was run by the engine and failed there ends with exactly 5
\* query generations and returns "Failed after 5 attempts.".
C1_AllFailingReturnsFailedAfter5 ==
    ( /\ q_node = "done"
      /\ ~llm_fault
      /\ ~unsafe_seen
      /\ \A i \in 1..Len(engine_log) : engine_log[i].out = "raise" )
    => (q_ret = FailedAfter5 /\ gen_calls = 5)

\* C2 (Spec).  PlanExecuteAgent.call never raises, and a call that returns
\* without a history update as its last streamed step returns
\* "Please reformulate.".
C2_CallNeverRaises ==
    /\ outcome # "raised"
    /\ (outcome = "returned" /\ final_step.name # "update_history")
           => retval = Reformulate

\* C3 (Spec).  past_steps never holds two entries with equal steps, the
\* placeholder entry of an empty plan excepted.
C3_NoStepTwice ==
    \A i, j \in 1..Len(past_steps) :
        (i < j /\ past_steps[i].step # NoStep)
            => past_steps[i].step # past_steps[j].step

CompletedSteps == {past_steps[i].step : i \in 1..Len(past_steps)}

Occurrences(seq, x) == Cardinality({i \in 1..Len(seq) : seq[i] = x})

\* sub is seq with some elements left out, the others in their order
IsSubsequence(sub, seq) ==
    \E f \in [1..Len(sub) -> 1..Len(seq)] :
        /\ \A i \in 1..Len(sub) : sub[i] = seq[f[i]]
        /\ \A i, j \in 1..Len(sub) : i < j => f[i] < f[j]

\* C4 (Spec).  When replan got a continuation plan, the adopted plan holds no
\* step equal (class and field) to a step of past_steps, and it is the
\* returned plan with exactly those steps left out: every other returned
\* step is kept, as often and in the order it was returned.
C4_ReplanAdoptsFiltered ==
    replan_out # <<>> =>
        LET out == replan_out[1] IN
        /\ \A i \in 1..Len(plan) : plan[i] \notin CompletedSteps
        /\ IsSubsequence(plan, out)
        /\ \A s \in PlanSteps \ CompletedSteps :
               Occurrences(plan, s) = Occurrences(out, s)

\* C4 witness: replan dropped a completed Analysis step and kept the Query
\* step with the same field value.
C4_Witness ==
    /\ replan_out # <<>>
    /\ AnalysisStep(1) \in CompletedSteps
    /\ QueryStep(1) \notin CompletedSteps
    /\ replan_out[1] = <<AnalysisStep(1), QueryStep(1)>>
    /\ plan = <<QueryStep(1)>>

LastN(seq, n) ==
    IF Len(seq) <= n THEN seq ELSE SubSeq(seq, Len(seq) - n + 1, Len(seq))

\* C5 (SpecHistory).  The conversation history holds at most 10 pairs, and it
\* is always the last 10 (or fewer, when fewer exist) of the pairs recorded
\* so far, in the order they were recorded.
C5_HistoryIsLastTen ==
    /\ Len(conversation_history) <= HistoryLimit
    /\ conversation_history = LastN(pairs_log, HistoryLimit)

\* C5 witness: 11 calls have returned, each with a history update; the pair
\* of the first call is gone and the pairs of calls 2..11 are left.
C5_Witness ==
    /\ turn = 11
    /\ outcome = "returned"
    /\ Len(pairs_log) = 11
    /\ Len(conversation_history) = 10
    /\ conversation_history[1].input = 2
    /\ conversation_history[10].input = 11

RECURSIVE TokenContainsDisallowed(_)
\* a keyword token with a disallowed word, the token itself or one inside it
TokenContainsDisallowed(token) ==
    \/ token.ttype \in KeywordTypes /\ Upper(token.value) \in Disallowed
    \/ \E i \in 1..Len(token.tokens) : TokenContainsDisallowed(token.tokens[i])

ContainsDisallowed(query) ==
    \E s \in 1..Len(query) :
        \E i \in 1..Len(query[s]) : TokenContainsDisallowed(query[s][i])

\* C6 (SpecFilter).  is_safe_query returns false exactly for the queries that
\* contain a DROP, DELETE, INSERT, UPDATE or PRAGMA keyword token, in any
\* letter case and at any nesting depth.
C6_FilterRejectsExactlyDisallowed ==
    f_verdict # <<>> => (f_verdict[1] <=> ~ContainsDisallowed(f_query))

\* C7 (SpecQuery).  Every query handed to the execution engine is one the
\* Safety Filter accepts: a rejected query never reaches sqldf.
C7_RejectedNeverExecuted ==
    \A i \in 1..Len(engine_log) : is_safe_query(engine_log[i].query)

\* C7 witness: a first query was executed and failed, the repaired query is
\* one the filter rejects, and ExecuteQuery ended without handing it over.
C7_Witness ==
    /\ unsafe_seen
    /\ ~is_safe_query(sql_query)
    /\ Len(attempts) = 2
    /\ Len(engine_log) = 1
    /\ engine_log[1].query # sql_query

\* C8 (SpecQuery).  An ExecuteQuery step on a query the Safety Filter rejects
\* leaves no result and an error, goes on to RepairQuery and returns nothing
\* yet.
C8_RejectionGoesToRepair ==
    [][ ( /\ q_node = "execute_query"
          /\ q_steps < QRecursionLimit
          /\ ~is_safe_query(sql_query)
          /\ q_node' # q_node )
        => ( /\ q_node' = "replan_query"
             /\ sql_result' = NoneVal
             /\ sql_error' # NoneVal
             /\ q_ret' = NoneVal ) ]_vars

\* C9 (SpecCache).  The Analysis Cache holds at most 20 entries.
C9_CacheAtMost20 == Len(analysis_cache) <= CacheLimit

\* C10 (SpecCache).  A call that inserts into a cache of 20 entries removes
\* the entry inserted first and keeps the other 19 and the new one, in
\* insertion order; a cache hit returns the stored text and leaves the cache
\* as it was.
C10_FifoEviction ==
    [][ /\ ( Len(analysis_cache) = CacheLimit /\ analysis_cache' # analysis_cache )
           => /\ Len(analysis_cache') = CacheLimit
              /\ \A i \in 1..(CacheLimit - 1) :
                     analysis_cache'[i] = analysis_cache[i + 1]
              /\ analysis_cache'[CacheLimit].key = CacheKey(last_call'.table)
        /\ ( last_call' # last_call /\ last_call'.hit )
           => /\ analysis_cache' = analysis_cache
              /\ last_call'.result
                     = CacheGet(analysis_cache, CacheKey(last_call'.table)) ]_vars

\* C11 (SpecCache).  Every call of analyse_data with a name that is not a
\* loaded table returns the not-found text that names that table and lists
\* exactly the loaded tables, whether the call is the first with that name, a
\* cache hit, or a call made after the entry was evicted; so all calls with one
\* name return the same text.
C11_UnknownTableSameText ==
    [][ ( calls' # calls /\ last_call'.table \in UnknownTables )
        => /\ last_call'.result.kind = "not found"
           /\ last_call'.result.table = last_call'.table
           /\ last_call'.result.listed = LoadedTables ]_vars

\* a repeated call with an unknown name, answered from the cache, after a
\* later call inserted another entry behind it
C11_Witness ==
    /\ last_call.table \in UnknownTables
    /\ last_call.hit
    /\ \E i, j \in 1..Len(analysis_cache) :
        /\ i < j
        /\ analysis_cache[i].key = CacheKey(last_call.table)

\* C12 (SpecQuery).  One call runs at most 5 nodes, and a call that has run 5
\* nodes and has a node still to run returns the degraded-service text, which
\* is not the text of the 5-attempt branch.
C12_AtMostFiveTransitions ==
    /\ [](q_steps <= QRecursionLimit)
    /\ [][ ( q_node \in QNodes /\ q_steps >= QRecursionLimit /\ q_node' # q_node )
            => ( q_node' = "done" /\ q_ret' = DegradedText
                 /\ q_ret' # FailedAfter5 ) ]_vars

\* a call ended by the limit with a node still to run
C12_Witness ==
    /\ q_node = "done"
    /\ q_steps = QRecursionLimit
    /\ q_final_step = "replan_query"
    /\ q_ret = DegradedText

\* C13 (SpecQuery).  Every finished call has returned one of the texts of
\* call, never an exception; a call in which a language-model call raised, or
\* in which the branch for a rejected query raised, returned the generic
\* failure text.
C13_QueryCallNeverRaises ==
    q_node = "done"
    => /\ q_ret \in {"summary", DegradedText, GenericFailure}
       /\ (llm_fault \/ unsafe_seen) => q_ret = GenericFailure

\* a call ended by an exception of the language model after a query had run
C13_Witness ==
    /\ q_node = "done"
    /\ llm_fault
    /\ Len(engine_log) > 0
    /\ q_ret = GenericFailure

InMap(t) == r_pc[t] \in {"init_locked", "chat_locked"}

\* C14 (SpecSession).  At most one request is inside the registry map at a
\* time and that request holds the lock; the map changes, and a lookup
\* delivers its agent, only in a step of the request holding the lock; no
\* session id is registered twice.
C14_RegistryUnderLock ==
    /\ [](/\ \A t, u \in Threads : (InMap(t) /\ InMap(u)) => t = u
          /\ \A t \in Threads : InMap(t) => agent_lock = t
          /\ \A i, j \in 1..Len(agents) : agents[i].id = agents[j].id => i = j)
    /\ [][ /\ agents' # agents => (agent_lock # 0 /\ InMap(agent_lock))
            /\ \A t \in Threads :
                 (r_pc[t] = "chat_locked" /\ r_pc'[t] # "chat_locked")
                     => agent_lock = t ]_vars

\* one request is inside the map while another has its session ready to
\* register and waits for the lock
C14_Witness ==
    \E t, u \in Threads :
        /\ r_pc[t] = "chat_locked"
        /\ r_pc[u] = "init_made"
        /\ agent_lock = t

\* C15 (SpecSession).  Two chat requests for one session are serialised: no
\* two requests are at the same time in event_stream, the part of the
\* request that runs the turn, with the same agent.
C15_TurnsSerialised ==
    \A t, u \in Threads :
        ( /\ r_pc[t] = "streaming"
          /\ r_pc[u] = "streaming"
          /\ r_agent[t] = r_agent[u] ) => t = u

\* C16 (SpecSession).  A chat request whose lookup found no live session ends
\* with the invalid-session result and leaves the registry as it was; a chat
\* request whose lookup found its session ends with a response, not with an
\* exception.
C16_ChatResult ==
    [][ \A t \in Threads :
          ( r_pc[t] \in {"chat_got", "streaming"} /\ r_pc'[t] = "idle" )
          => /\ r_result'.thread = t
             /\ r_agent[t] = 0
                  => /\ r_result'.result = "invalid session"
                     /\ agents' = agents
                     /\ next_id' = next_id
             /\ r_agent[t] # 0 => r_result'.result = "response" ]_vars

\* C17 (Spec).  A turn starts with an empty plan, empty past_steps and an
\* empty response, and while the turn runs past_steps holds exactly the
\* steps executed in this turn.
C17_TurnStartsEmpty ==
    /\ (node = "get_plan_or_response" /\ steps = 0)
        => (plan = <<>> /\ past_steps = <<>> /\ response = "")
    /\ node \in {"agent", "replan"} => Len(past_steps) = turn_exec

\* C18 (Spec).  A call that ended through update_history returned the
\* response of its turn, and the last pair of conversation_history is the
\* input of this call with that response.
C18_ReturnsTurnResponse ==
    (outcome = "returned" /\ final_step.name = "update_history")
    => /\ retval = response
       /\ Len(conversation_history) > 0
       /\ conversation_history[Len(conversation_history)]
              = [input |-> turn, response |-> retval]

\* the second call of a session returned the final response of its replan
C18_Witness ==
    /\ outcome = "returned"
    /\ final_step.name = "update_history"
    /\ turn = 2
    /\ turn_exec > 0
    /\ retval = "answer"

\* C19 (SpecQuery).  A step of write_query or replan_query that obtains a
\* query from the model makes the attempt history exactly one entry longer
\* and keeps the earlier entries; no generation is requested when the history holds 5
\* entries; generation calls and history length never exceed 5.
C19_OneAttemptPerGeneration ==
    /\ [](gen_calls <= 5 /\ Len(attempts) <= 5)
    /\ [][ ( gen_calls' = gen_calls + 1 )
            => /\ Len(attempts) < 5
               /\ q_node' # "done"
                    => /\ Len(attempts') = Len(attempts) + 1
                       /\ \A i \in 1..Len(attempts) : attempts'[i] = attempts[i] ]_vars

\* a call in which write_query and replan_query twice each added their query
C19_Witness ==
    /\ gen_calls = 3
    /\ Len(attempts) = 3
    /\ q_final_step = "replan_query"

LastOutcome(log) == log[Len(log)].out

\* C20 (SpecQuery).  analyze_result is entered only from an execute_query
\* whose query the engine ran with success (rows or no rows), replan_query
\* only from an execute_query whose query failed in the engine; a run of
\* execute_query leaves exactly one of sql_result and sql_error set; a call
\* whose analyze_result produced its summary returns that summary.
C20_QueryLoopRouting ==
    [][ /\ ( q_node' = "analyze_result" /\ q_node # "analyze_result" )
            => /\ q_node = "execute_query"
               /\ engine_log' # engine_log
               /\ LastOutcome(engine_log') \in {"rows", "[]"}
        /\ ( q_node' = "replan_query" /\ q_node # "replan_query" )
            => /\ q_node = "execute_query"
               /\ engine_log' # engine_log
               /\ LastOutcome(engine_log') = "raise"
        /\ ( q_node = "execute_query" /\ q_steps < QRecursionLimit
                /\ q_node' # "execute_query" )
            => ( (sql_result' = NoneVal) # (sql_error' = NoneVal) )
        /\ ( q_node' = "done" /\ q_final_step' = "analyze_result" )
            => q_ret' = final_answer' ]_vars

\* C21 (Spec).  A run of execute_step leaves the plan as it was, appends
\* exactly one entry to past_steps, for a non-empty plan the first step of
\* the plan with its result and for an empty plan the placeholder with the
\* empty result, and is followed by replan.
C21_ExecuteStepEffect ==
    [][ ( node = "agent" /\ node' # "agent" )
        => /\ node' = "replan"
           /\ plan' = plan
           /\ Len(past_steps') = Len(past_steps) + 1
           /\ \A i \in 1..Len(past_steps) : past_steps'[i] = past_steps[i]
           /\ LET entry == past_steps'[Len(past_steps')] IN
                IF plan = <<>>
                THEN entry = [step |-> NoStep, result |-> EmptyText]
                ELSE /\ entry.step = plan[1]
                     /\ plan[1].kind = "Query" => entry.result \in QueryTexts
                     /\ plan[1].kind = "Analysis"
                          => entry.result = AnalyseResult(analysis_cache, plan[1].arg)
      ]_vars

\* execute_step has run a step of a plan and, later, on an empty plan
C21_Witness ==
    /\ node = "replan"
    /\ Len(past_steps) >= 2
    /\ past_steps[Len(past_steps)] = [step |-> NoStep, result |-> EmptyText]
    /\ \E i \in 1..Len(past_steps) : past_steps[i].step # NoStep

\* C22 (Spec).  get_plan_or_response goes to update_history only with a
\* direct response in hand, and with a plan, also one without steps, to
\* execute_step; replan goes to update_history only with a final response;
\* so no pair recorded by update_history has an empty response.
C22_DecideRouting ==
    /\ [][ /\ ( node = "get_plan_or_response" /\ node' = "update_history" )
                => response' # ""
           /\ ( node = "replan" /\ node' = "update_history" )
                => response' # "" ]_vars
    /\ [](\A i \in 1..Len(pairs_log) : pairs_log[i].response # "")

\* C23 (SpecCache).  A call of analyse_data for a loaded table without
\* numeric columns returns the no-numeric-data text, is no cache hit, and
\* leaves the cache exactly as it was.
C23_NoNumericNotCached ==
    [][ ( calls' # calls /\ last_call'.table \in LoadedTables \ NumericTables )
        => /\ last_call'.result = NoNumericText(last_call'.table)
           /\ ~last_call'.hit
           /\ analysis_cache' = analysis_cache ]_vars

\* the table without numeric data was asked for with the cache at its limit
C23_Witness ==
    /\ last_call.table \in LoadedTables \ NumericTables
    /\ Len(analysis_cache) >= CacheLimit
    /\ calls > CacheLimit + 1

\* C24 (SpecCeiling).  A call in which no call to the language model raised
\* ends by returning a text, also when the replanner continues at every
\* replan.
C24_TurnReturnsText ==
    (node = "idle" /\ turn > 0 /\ faults = 0) => outcome = "returned"

\* C25 (SpecSession).  A chat lookup of a session that a chat lookup found
\* less than 30 minutes earlier finds it again; a chat lookup of a session
\* last found more than 30 minutes earlier reports it invalid.
C25_IdleExpiry ==
    [][ \A t \in Threads :
          ( /\ r_pc[t] = "chat_locked" /\ r_pc'[t] = "chat_got"
            /\ r_sid[t] \in 1..MaxSessions
            /\ r_served[r_sid[t]] >= 0 )
          => /\ now - r_served[r_sid[t]] < ttl => r_agent'[t] = r_sid[t]
             /\ now - r_served[r_sid[t]] > ttl => r_agent'[t] = 0 ]_vars

=============================================================================
